---- MODULE Spec2Model ----
(***************************************************************************)
(* Model of the pipette state machine of opentrons_bioart_sim              *)
(* (src/src/opentrons_bioart_sim/mock.py, class PipetteSim) together with  *)
(* the well registry lookups and the colour resolver it calls.             *)
(*                                                                         *)
(* Lengths are fixed-point numbers: one unit is 1/UnitsPerMm millimetre,   *)
(* which makes the well-to-canvas transform (a division by 6) and the      *)
(* half-way point of a smear exact.  Volumes are whole microlitres.        *)
(***************************************************************************)
EXTENDS Integers, Sequences, FiniteSets, TLC

VARIABLES
    has_tip,          \* self.has_tip
    tip_count,        \* self.tip_count
    current_volume,   \* self.current_volume
    aspirated_loc,    \* self.aspirated_loc (None, a well or a location)
    curr_color,       \* self.curr_color
    location,         \* self.location
    justDispensedAt,  \* self.justDispensedAt (None or a location)
    droplets_x,       \* self.droplets_x
    droplets_y,       \* self.droplets_y
    droplets_size,    \* self.droplets_size
    droplets_color,   \* self.droplets_color
    smears,           \* self.smears
    totalAspirated,   \* self.totalAspirated (dict reagent -> volume)
    totalDispensed,   \* self.totalDispensed (dict reagent -> volume)
    op,               \* the operation the protocol script called last
    result,           \* its outcome: "ok" or the error it raised
    calls_left,       \* number of calls the script has still to make
    aspirated_run,    \* history: sum of the volumes of the successful
                      \* aspirates since the last pick_up_tip while the
                      \* script has called nothing but aspirate; -1 otherwise
    since_drop,       \* history: None before the first droplet, else where
                      \* the last droplet went, how many smears there were
                      \* right after it, and what was called since
    script_step,      \* history: how many calls of the five-call drawing
                      \* Script the calls made so far are, or -1 when the
                      \* script has called anything else
    tip_reagent,      \* history: "" after a successful pick_up_tip, else
                      \* the reagent of the source of the last successful
                      \* aspirate
    dispenses,        \* history: number of successful dispense calls
    drop_tips,        \* history: number of successful drop_tip calls
    protein_or_color_name,
                      \* the string handed to resolve_visual_color, as the
                      \* sequence of its characters
    visual,           \* None, or what resolve_visual_color returned for it
    stage,            \* where simulate_protocol is: "called", "run" (the
                      \* protocol's run() is under way), "returned" (run()
                      \* has returned), "done", or "raised"
    exception,        \* the error simulate_protocol raised; "ok" when none
    mock_pipette,     \* mock.pipette: None until load_instrument
    save_path,        \* the save_path argument: "" for None, else a path
    rendered,         \* number of calls of visualize_petri
    written           \* number of image files written

vars == <<has_tip, tip_count, current_volume, aspirated_loc, curr_color,
          location, justDispensedAt, droplets_x, droplets_y, droplets_size,
          droplets_color, smears, totalAspirated, totalDispensed,
          op, result, calls_left, aspirated_run, since_drop, script_step,
          tip_reagent, dispenses, drop_tips,
          protein_or_color_name, visual, stage, exception, mock_pipette,
          save_path, rendered, written>>

\* the variables of resolve_visual_color and of simulate_protocol, which no
\* method of the pipette touches
outside ==
    <<protein_or_color_name, visual, stage, exception, mock_pipette,
      save_path, rendered, written>>

-----------------------------------------------------------------------------
(* Bounds of the model *)

\* length of a protocol script that may call anything with any argument
MaxCalls == 4

\* length of a drawing script, which asks for valid volumes and places only
MaxDrawingCalls == 6

\* length of a string handed to resolve_visual_color
MaxLen == 7

\* number of pipette calls the run() of a simulated protocol file makes
MaxRunCalls == 4

-----------------------------------------------------------------------------
(* Constants of the program *)

UnitsPerMm == 6

PETRI_INNER_DIAMETER == 84

MAX_DRAW_RADIUS == (PETRI_INNER_DIAMETER \div 2) - 2

max_volume == 20

Mm(n) == n * UnitsPerMm

-----------------------------------------------------------------------------
(* Values *)

None == [kind |-> "none"]

\* types.Location(types.Point(x, y, z), labware); x, y, z in units
Location(x, y, z, labware) ==
    [kind |-> "loc", x |-> x, y |-> y, z |-> z, labware |-> labware]

_null_location == Location(Mm(250), Mm(250), Mm(250), "None")

\* the registry handed to OpentronsMock: well id -> reagent name
well_colors == [A1 |-> "sfGFP", D6 |-> "mRFP1"]

\* well ids a protocol script asks the plate for
WellIds == {"A1", "a1", "D6", "Z9"}

\* str.upper() on the well ids
Upper(id) == IF id = "a1" THEN "A1" ELSE id

\* ord(well_id[0].upper()) and int(well_id[1:])
RowOrd(id) ==
    CASE id \in {"A1", "a1"} -> 65
      [] id = "D6" -> 68
      [] id = "Z9" -> 90

ColNum(id) ==
    CASE id \in {"A1", "a1"} -> 1
      [] id = "D6" -> 6
      [] id = "Z9" -> 9

\* dict.get(well_id, '')
RegistryGet(id) == IF id \in DOMAIN well_colors THEN well_colors[id] ELSE ""

\* WellMock(well_id, well_color, labware)
WellMock(id, color, labware) ==
    [kind |-> "well", well_id |-> id,
     well_color |-> IF color = "" THEN "purple" ELSE color,
     labware_official_name |-> labware]

\* LabwareMock.well / __getitem__ of the reagent plate
PlateWell(id) == WellMock(id, RegistryGet(id), "plate")

\* WellMock.get_row_col
get_row_col(well) == <<RowOrd(well.well_id), ColNum(well.well_id)>>

\* WellMock.top(): Location(Point(0, 0, z), 'Well')
WellTop(z) == Location(0, 0, z, "Well")

\* Location.move(point)
Move(loc, dx, dy, dz) ==
    Location(loc.x + dx, loc.y + dy, loc.z + dz, loc.labware)

-----------------------------------------------------------------------------
(* colors.py *)

\* a Python string is the sequence of its characters; the reagent and colour
\* names the pipette handles as whole values are spelt here
spell ==
    [sfGFP  |-> <<"s", "f", "G", "F", "P">>,
     mRFP1  |-> <<"m", "R", "F", "P", "1">>,
     purple |-> <<"p", "u", "r", "p", "l", "e">>,
     orange |-> <<"o", "r", "a", "n", "g", "e">>,
     white  |-> <<"w", "h", "i", "t", "e">>,
     lime   |-> <<"l", "i", "m", "e">>,
     red    |-> <<"r", "e", "d">>]

\* the characters of a name, and the name some characters spell
Chars(str) == spell[str]

Text(chars) == CHOOSE str \in DOMAIN spell : spell[str] = chars

\* the characters str.strip() removes
Whitespace == {" ", "\t"}

\* the capital letters that occur, each with its small letter
Uppercase ==
    [S |-> "s", F |-> "f", G |-> "g", P |-> "p", E |-> "e", R |-> "r",
     N |-> "n", D |-> "d", M |-> "m"]

RECURSIVE lower(_)
\* str.lower()
lower(chars) ==
    IF chars = <<>> THEN <<>>
    ELSE <<IF Head(chars) \in DOMAIN Uppercase THEN Uppercase[Head(chars)]
           ELSE Head(chars)>> \o lower(Tail(chars))

RECURSIVE lstrip(_)
\* str.lstrip()
lstrip(chars) ==
    IF chars # <<>> /\ Head(chars) \in Whitespace THEN lstrip(Tail(chars))
    ELSE chars

RECURSIVE rstrip(_)
\* str.rstrip()
rstrip(chars) ==
    IF chars # <<>> /\ chars[Len(chars)] \in Whitespace
    THEN rstrip(SubSeq(chars, 1, Len(chars) - 1))
    ELSE chars

\* strip as it would be if it trimmed the beginning only
strip_LeadingOnly(chars) == lstrip(chars)

\* str.strip()
strip(chars) == rstrip(lstrip(chars))

\* the table, keys and colours as sequences of characters
PROTEIN_VISUAL_COLORS ==
    (<<"m", "r", "f", "p", "1">> :> <<"r", "e", "d">>)
    @@ (<<"m", "c", "h", "e", "r", "r", "y">> :> <<"f", "i", "r", "e", "b", "r", "i", "c", "k">>)
    @@ (<<"d", "s", "r", "e", "d">> :> <<"d", "a", "r", "k", "r", "e", "d">>)
    @@ (<<"m", "r", "u", "b", "y", "2">> :> <<"c", "r", "i", "m", "s", "o", "n">>)
    @@ (<<"m", "s", "c", "a", "r", "l", "e", "t", "_", "i">> :> <<"t", "o", "m", "a", "t", "o">>)
    @@ (<<"m", "k", "a", "t", "e", "2">> :> <<"d", "e", "e", "p", "p", "i", "n", "k">>)
    @@ (<<"m", "k", "a", "t", "e", "2", "_", "t", "f">> :> <<"m", "e", "d", "i", "u", "m", "v", "i", "o", "l", "e", "t", "r", "e", "d">>)
    @@ (<<"t", "a", "g", "r", "f", "p">> :> <<"c", "o", "r", "a", "l">>)
    @@ (<<"t", "d", "t", "o", "m", "a", "t", "o">> :> <<"o", "r", "a", "n", "g", "e", "r", "e", "d">>)
    @@ (<<"e", "q", "f", "p", "5", "7", "8">> :> <<"s", "a", "l", "m", "o", "n">>)
    @@ (<<"m", "l", "y", "c", "h", "e", "e", "_", "t", "f">> :> <<"h", "o", "t", "p", "i", "n", "k">>)
    @@ (<<"m", "w", "a", "t", "e", "r", "m", "e", "l", "o", "n">> :> <<"l", "i", "g", "h", "t", "c", "o", "r", "a", "l">>)
    @@ (<<"m", "k", "o", "2">> :> <<"o", "r", "a", "n", "g", "e">>)
    @@ (<<"m", "p", "a", "p", "a", "y", "a">> :> <<"l", "i", "g", "h", "t", "s", "a", "l", "m", "o", "n">>)
    @@ (<<"v", "e", "n", "u", "s">> :> <<"y", "e", "l", "l", "o", "w">>)
    @@ (<<"m", "c", "i", "t", "r", "i", "n", "e">> :> <<"g", "o", "l", "d">>)
    @@ (<<"m", "v", "e", "n", "u", "s">> :> <<"g", "o", "l", "d", "e", "n", "r", "o", "d">>)
    @@ (<<"m", "b", "a", "n", "a", "n", "a">> :> <<"k", "h", "a", "k", "i">>)
    @@ (<<"m", "s", "t", "a", "y", "g", "o", "l", "d", "2">> :> <<"g", "o", "l", "d">>)
    @@ (<<"m", "c", "h", "a", "r", "t", "r", "e", "u", "s", "e", "_", "t", "f">> :> <<"c", "h", "a", "r", "t", "r", "e", "u", "s", "e">>)
    @@ (<<"s", "f", "g", "f", "p">> :> <<"l", "i", "m", "e">>)
    @@ (<<"e", "g", "f", "p">> :> <<"l", "i", "m", "e">>)
    @@ (<<"m", "e", "g", "f", "p">> :> <<"l", "i", "m", "e", "g", "r", "e", "e", "n">>)
    @@ (<<"a", "v", "g", "f", "p">> :> <<"p", "a", "l", "e", "g", "r", "e", "e", "n">>)
    @@ (<<"m", "n", "e", "o", "n", "g", "r", "e", "e", "n">> :> <<"g", "r", "e", "e", "n", "y", "e", "l", "l", "o", "w">>)
    @@ (<<"m", "a", "z", "a", "m", "i", "g", "r", "e", "e", "n">> :> <<"f", "o", "r", "e", "s", "t", "g", "r", "e", "e", "n">>)
    @@ (<<"m", "c", "l", "o", "v", "e", "r", "3">> :> <<"g", "r", "e", "e", "n">>)
    @@ (<<"m", "w", "a", "s", "a", "b", "i">> :> <<"l", "i", "g", "h", "t", "g", "r", "e", "e", "n">>)
    @@ (<<"m", "j", "u", "n", "i", "p", "e", "r">> :> <<"d", "a", "r", "k", "g", "r", "e", "e", "n">>)
    @@ (<<"z", "s", "g", "r", "e", "e", "n", "1">> :> <<"s", "p", "r", "i", "n", "g", "g", "r", "e", "e", "n">>)
    @@ (<<"p", "a", "_", "g", "f", "p">> :> <<"m", "e", "d", "i", "u", "m", "s", "e", "a", "g", "r", "e", "e", "n">>)
    @@ (<<"m", "h", "o", "n", "e", "y", "d", "e", "w">> :> <<"y", "e", "l", "l", "o", "w", "g", "r", "e", "e", "n">>)
    @@ (<<"a", "z", "u", "r", "i", "t", "e">> :> <<"r", "o", "y", "a", "l", "b", "l", "u", "e">>)
    @@ (<<"t", "a", "g", "b", "f", "p">> :> <<"b", "l", "u", "e">>)
    @@ (<<"m", "t", "a", "g", "b", "f", "p", "2">> :> <<"m", "e", "d", "i", "u", "m", "b", "l", "u", "e">>)
    @@ (<<"u", "l", "t", "r", "a", "m", "a", "r", "i", "n", "e">> :> <<"n", "a", "v", "y">>)
    @@ (<<"m", "t", "u", "r", "q", "u", "o", "i", "s", "e", "2">> :> <<"t", "u", "r", "q", "u", "o", "i", "s", "e">>)
    @@ (<<"m", "c", "e", "r", "u", "l", "e", "a", "n", "3">> :> <<"c", "y", "a", "n">>)
    @@ (<<"m", "t", "f", "p", "1">> :> <<"d", "a", "r", "k", "c", "y", "a", "n">>)
    @@ (<<"m", "m", "i", "c", "y">> :> <<"a", "q", "u", "a", "m", "a", "r", "i", "n", "e">>)
    @@ (<<"e", "l", "e", "c", "t", "r", "a", "2">> :> <<"d", "e", "e", "p", "s", "k", "y", "b", "l", "u", "e">>)
    @@ (<<"m", "p", "l", "u", "m">> :> <<"p", "u", "r", "p", "l", "e">>)

\* the resolver as it would be if the synonym were mapped the other way round
resolve_visual_color_chars_LimeToGreen(chars) ==
    LET key == strip(lower(chars)) IN
    IF key \in DOMAIN PROTEIN_VISUAL_COLORS THEN PROTEIN_VISUAL_COLORS[key]
    ELSE IF key = <<"l", "i", "m", "e">> THEN <<"g", "r", "e", "e", "n">>
    ELSE chars

\* resolve_visual_color on the characters of its argument
resolve_visual_color_chars(chars) ==
    LET key == strip(lower(chars)) IN
    IF key \in DOMAIN PROTEIN_VISUAL_COLORS THEN PROTEIN_VISUAL_COLORS[key]
    ELSE IF key = <<"g", "r", "e", "e", "n">> THEN Chars("lime")
    ELSE chars

\* resolve_visual_color on a name the pipette handles
resolve_visual_color(str) == Text(resolve_visual_color_chars(Chars(str)))

-----------------------------------------------------------------------------
(* Helpers of PipetteSim *)

\* the comparison as it would be if it took z into account
_same_2d_location_WithZ(loc1, loc2) ==
    /\ loc1.x = loc2.x
    /\ loc1.y = loc2.y
    /\ loc1.z = loc2.z
    /\ loc1.labware = loc2.labware

_same_2d_location(loc1, loc2) ==
    /\ loc1.x = loc2.x
    /\ loc1.y = loc2.y
    /\ loc1.labware = loc2.labware

\* the canvas position as it would be if the rows were counted from A
petriLocOfWell_FromA(well) ==
    LET rc == get_row_col(well) IN
    Move(WellTop(0),
         ((rc[1] - 65) * Mm(MAX_DRAW_RADIUS)) \div 4,
         ((rc[2] - 6) * Mm(MAX_DRAW_RADIUS)) \div 6,
         0)

petriLocOfWell(well) ==
    LET rc == get_row_col(well) IN
    Move(WellTop(0),
         ((rc[1] - 68) * Mm(MAX_DRAW_RADIUS)) \div 4,
         ((rc[2] - 6) * Mm(MAX_DRAW_RADIUS)) \div 6,
         0)

\* the location smearIfJustDispensed compares the mark with
SmearTarget(loc) == IF loc.kind = "loc" THEN loc ELSE petriLocOfWell(loc)

\* the smear as it would be if it took the reagent name for its colour
SmearRecord_RawColor(mark, newloc, color) ==
    LET line_end == Move(mark, (newloc.x - mark.x) \div 2,
                               (newloc.y - mark.y) \div 2,
                               (newloc.z - mark.z) \div 2)
    IN  [xs |-> <<mark.x, line_end.x>>,
         ys |-> <<mark.y, line_end.y>>,
         color |-> color]

\* the smear as it would be if the line were drawn all the way to newloc
SmearRecord_FullLength(mark, newloc, color) ==
    [xs |-> <<mark.x, newloc.x>>,
     ys |-> <<mark.y, newloc.y>>,
     color |-> resolve_visual_color(color)]

\* the smear record appended for mark and newloc
SmearRecord(mark, newloc, color) ==
    LET line_end == Move(mark, (newloc.x - mark.x) \div 2,
                               (newloc.y - mark.y) \div 2,
                               (newloc.z - mark.z) \div 2)
    IN  [xs |-> <<mark.x, line_end.x>>,
         ys |-> <<mark.y, line_end.y>>,
         color |-> resolve_visual_color(color)]

\* the smears as they would be if a new smear replaced the earlier ones
SmearsAfter_KeepsLast(loc) ==
    IF justDispensedAt # None
       /\ ~_same_2d_location(justDispensedAt, SmearTarget(loc))
    THEN <<SmearRecord(justDispensedAt, SmearTarget(loc), curr_color)>>
    ELSE smears

\* self.smears after smearIfJustDispensed(loc)
SmearsAfter(loc) ==
    IF justDispensedAt # None
       /\ ~_same_2d_location(justDispensedAt, SmearTarget(loc))
    THEN Append(smears, SmearRecord(justDispensedAt, SmearTarget(loc), curr_color))
    ELSE smears

\* the totals as they would be if each call overwrote the entry
DictAdd_Overwrite(d, key, volume) ==
    IF key \in DOMAIN d THEN [d EXCEPT ![key] = volume]
    ELSE d @@ (key :> volume)

\* dict.setdefault(key, 0) followed by dict[key] += volume
DictAdd(d, key, volume) ==
    IF key \in DOMAIN d THEN [d EXCEPT ![key] = @ + volume]
    ELSE d @@ (key :> volume)

-----------------------------------------------------------------------------
(* Inputs of the protocol script *)

\* volumes asked of aspirate: negative, none, some, a full tip
AspirateVolumes == {-1, 0, 5, 20}

\* volumes asked of dispense: negative, none, and two that add up to one aspirate
DispenseVolumes == {-1, 0, 2, 3}

DispenseLocations ==
    { Location(0, 0, 0, "Well"),                \* centre of the dish
      Location(Mm(5), Mm(5), 0, "Well"),
      Location(0, 0, Mm(2), "Well"),            \* hover above the centre
      Location(Mm(24), Mm(32), 0, "Well"),      \* on the circle of radius R
      Location(Mm(41), 0, 0, "Well"),           \* outside
      Location(0, 0, -Mm(1), "Well") }          \* below the surface

AspirateSources ==
    { PlateWell(id) : id \in WellIds }
    \cup { Location(0, 0, 0, "None"), Location(0, 0, -Mm(1), "None") }

PickupLocation == Location(-Mm(MAX_DRAW_RADIUS), Mm(MAX_DRAW_RADIUS), 0, "Pickup Tip")

DropLocation == Location(Mm(MAX_DRAW_RADIUS), Mm(MAX_DRAW_RADIUS), 0, "Drop Tip")

-----------------------------------------------------------------------------
(* PipetteSim.__init__ *)

Constructed ==
    /\ has_tip = FALSE
    /\ tip_count = 0
    /\ current_volume = 0
    /\ aspirated_loc = None
    /\ curr_color = "orange"
    /\ location = _null_location
    /\ justDispensedAt = None
    /\ droplets_x = <<>>
    /\ droplets_y = <<>>
    /\ droplets_size = <<>>
    /\ droplets_color = <<>>
    /\ smears = <<>>
    /\ totalAspirated = <<>>
    /\ totalDispensed = <<>>
    /\ op = "__init__"
    /\ result = "ok"
    /\ aspirated_run = -1
    /\ since_drop = None
    /\ script_step = 0
    /\ tip_reagent = ""
    /\ dispenses = 0
    /\ drop_tips = 0

\* no string is being resolved
NothingResolved == protein_or_color_name = <<>> /\ visual = None

\* the protocol's run() is under way, it has loaded its pipette and
\* nothing has been rendered
Running ==
    /\ stage = "run"
    /\ exception = "ok"
    /\ mock_pipette = [kind |-> "PipetteSim"]
    /\ save_path = ""
    /\ rendered = 0
    /\ written = 0

Init == Constructed /\ calls_left = MaxCalls /\ NothingResolved /\ Running

\* what the script has called since the last droplet: nothing ("none"),
\* only successful aspirates ("aspirate"), or anything else ("other")
BetweenAfter(name, r) ==
    IF name = "aspirate" /\ r = "ok" /\ since_drop.between \in {"none", "aspirate"}
    THEN "aspirate"
    ELSE "other"

\* the script is running, has a pipette and has a call left to make
CanCall == stage = "run" /\ mock_pipette # None /\ calls_left > 0

\* bookkeeping of the script: which method was called with which volume
\* (0 for a method without) and how the call ended
Called(name, r, volume) ==
    /\ calls_left' = calls_left - 1
    /\ op' = name
    /\ result' = r
    /\ aspirated_run' =
           IF name = "pick_up_tip" /\ r = "ok" THEN 0
           ELSE IF name = "aspirate" /\ aspirated_run >= 0
                THEN (IF r = "ok" THEN aspirated_run + volume ELSE aspirated_run)
                ELSE -1
    /\ dispenses' =
           IF name = "dispense" /\ r = "ok" THEN dispenses + 1 ELSE dispenses
    /\ drop_tips' =
           IF name = "drop_tip" /\ r = "ok" THEN drop_tips + 1 ELSE drop_tips

\* the reagent a source holds: the colour of the well, 'white' for a bare
\* location
ReagentOf(loc) == IF loc.kind = "well" THEN loc.well_color ELSE "white"

\* bookkeeping of the trail: the droplet a successful dispense has just
\* recorded at loc, or else one more call made since the last droplet; and
\* the reagent the tip has drawn since it was picked up
Recorded(name, r, loc) ==
    /\ since_drop' =
           IF name = "dispense" /\ r = "ok"
           THEN [kind |-> "drop", loc |-> loc, nsmears |-> Len(smears'),
                 between |-> "none"]
           ELSE IF since_drop = None THEN None
                ELSE [since_drop EXCEPT !.between = BetweenAfter(name, r)]
    /\ tip_reagent' =
           IF name = "pick_up_tip" /\ r = "ok" THEN ""
           ELSE IF name = "aspirate" /\ r = "ok" THEN ReagentOf(loc)
           ELSE tip_reagent

\* the five calls of the drawing the tests and examples start from: one tip,
\* 5 uL of the reagent of A1, a droplet of 3 uL at the centre, one of 2 uL
\* at (5, 5), tip dropped
Script ==
    << <<"pick_up_tip", 0, None>>,
       <<"aspirate", 5, PlateWell("A1")>>,
       <<"dispense", 3, Location(0, 0, 0, "Well")>>,
       <<"dispense", 2, Location(Mm(5), Mm(5), 0, "Well")>>,
       <<"drop_tip", 0, None>> >>

\* bookkeeping of the script: the call made is the next call of Script
Followed(name, volume, loc) ==
    script_step' =
        IF /\ script_step >= 0
           /\ script_step < Len(Script)
           /\ Script[script_step + 1] = <<name, volume, loc>>
        THEN script_step + 1
        ELSE -1

-----------------------------------------------------------------------------
(* PipetteSim.pick_up_tip *)

\* pick_up_tip as it would be without the check for a mounted tip
PickUpTipError_NoCheck ==
    IF aspirated_loc # None THEN "AssertionError" ELSE "ok"

PickUpTipError ==
    IF has_tip THEN "AlreadyHoldingTip"
    ELSE IF aspirated_loc # None THEN "AssertionError"
    ELSE "ok"

\* the count as it would be if the tips after the first were not counted
TipCountAfterPickUp_FirstOnly == IF tip_count = 0 THEN tip_count + 1 ELSE tip_count

\* self.tip_count += 1
TipCountAfterPickUp == tip_count + 1

pick_up_tip ==
    /\ CanCall
    /\ Called("pick_up_tip", PickUpTipError, 0)
    /\ smears' = SmearsAfter(PickupLocation)
    /\ justDispensedAt' = None
    /\ CASE PickUpTipError = "AlreadyHoldingTip" ->
              UNCHANGED <<has_tip, tip_count, current_volume, location>>
         [] PickUpTipError = "AssertionError" ->
              /\ has_tip' = TRUE
              /\ UNCHANGED <<tip_count, current_volume, location>>
         [] OTHER ->
              /\ has_tip' = TRUE
              /\ tip_count' = TipCountAfterPickUp
              /\ current_volume' = 0
              /\ location' = PickupLocation
    /\ UNCHANGED <<aspirated_loc, curr_color, droplets_x, droplets_y,
                   droplets_size, droplets_color, totalAspirated,
                   totalDispensed>>
    /\ Recorded("pick_up_tip", PickUpTipError, None)
    /\ Followed("pick_up_tip", 0, None)
    /\ UNCHANGED outside

(* PipetteSim.drop_tip *)

DropTipError == IF ~has_tip THEN "NoTip" ELSE "ok"

\* drop_tip as it would be if it kept the source of the tip dropped
drop_tip_KeepsSource ==
    /\ CanCall
    /\ Called("drop_tip", DropTipError, 0)
    /\ smears' = SmearsAfter(DropLocation)
    /\ justDispensedAt' = None
    /\ IF DropTipError = "ok"
       THEN /\ has_tip' = FALSE
            /\ UNCHANGED aspirated_loc
            /\ current_volume' = 0
            /\ location' = DropLocation
       ELSE UNCHANGED <<has_tip, aspirated_loc, current_volume, location>>
    /\ UNCHANGED <<tip_count, curr_color, droplets_x, droplets_y,
                   droplets_size, droplets_color, totalAspirated,
                   totalDispensed>>
    /\ Recorded("drop_tip", DropTipError, None)
    /\ Followed("drop_tip", 0, None)
    /\ UNCHANGED outside

drop_tip ==
    /\ CanCall
    /\ Called("drop_tip", DropTipError, 0)
    /\ smears' = SmearsAfter(DropLocation)
    /\ justDispensedAt' = None
    /\ IF DropTipError = "ok"
       THEN /\ has_tip' = FALSE
            /\ aspirated_loc' = None
            /\ current_volume' = 0
            /\ location' = DropLocation
       ELSE UNCHANGED <<has_tip, aspirated_loc, current_volume, location>>
    /\ UNCHANGED <<tip_count, curr_color, droplets_x, droplets_y,
                   droplets_size, droplets_color, totalAspirated,
                   totalDispensed>>
    /\ Recorded("drop_tip", DropTipError, None)
    /\ Followed("drop_tip", 0, None)
    /\ UNCHANGED outside

(* PipetteSim.aspirate *)

\* the registry test as it would be if it compared the ids as written
InRegistry_CaseSensitive(well) == well.well_id \in DOMAIN well_colors

\* the registry test of aspirate: well_id.upper() in (wid.upper() for wid in keys)
InRegistry(well) ==
    Upper(well.well_id) \in { Upper(wid) : wid \in DOMAIN well_colors }

\* aspirate as it would be without the capacity check
AspirateEarlyError_NoCapacityCheck(volume, loc) ==
    IF ~has_tip THEN "NoTip"
    ELSE IF volume <= 0 THEN "InvalidVolume"
    ELSE IF aspirated_loc # None /\ aspirated_loc # loc THEN "CrossContamination"
    ELSE "ok"

\* aspirate as it would be without the tip check
AspirateEarlyError_NoTipCheck(volume, loc) ==
    IF volume + current_volume > max_volume THEN "CapacityExceeded"
    ELSE IF volume <= 0 THEN "InvalidVolume"
    ELSE IF aspirated_loc # None /\ aspirated_loc # loc THEN "CrossContamination"
    ELSE "ok"

\* aspirate as it would be without the comparison of the sources
AspirateEarlyError_NoSourceCheck(volume, loc) ==
    IF ~has_tip THEN "NoTip"
    ELSE IF volume + current_volume > max_volume THEN "CapacityExceeded"
    ELSE IF volume <= 0 THEN "InvalidVolume"
    ELSE "ok"

\* aspirate as it would be if the capacity check forgot the volume held
AspirateEarlyError_CapacityIgnoresHeld(volume, loc) ==
    IF ~has_tip THEN "NoTip"
    ELSE IF volume > max_volume THEN "CapacityExceeded"
    ELSE IF volume <= 0 THEN "InvalidVolume"
    ELSE IF aspirated_loc # None /\ aspirated_loc # loc THEN "CrossContamination"
    ELSE "ok"

\* aspirate as it would be if it accepted a volume of zero
AspirateEarlyError_ZeroAllowed(volume, loc) ==
    IF ~has_tip THEN "NoTip"
    ELSE IF volume + current_volume > max_volume THEN "CapacityExceeded"
    ELSE IF volume < 0 THEN "InvalidVolume"
    ELSE IF aspirated_loc # None /\ aspirated_loc # loc THEN "CrossContamination"
    ELSE "ok"

\* the checks aspirate makes before it changes anything
AspirateEarlyError(volume, loc) ==
    IF ~has_tip THEN "NoTip"
    ELSE IF volume + current_volume > max_volume THEN "CapacityExceeded"
    ELSE IF volume <= 0 THEN "InvalidVolume"
    ELSE IF aspirated_loc # None /\ aspirated_loc # loc THEN "CrossContamination"
    ELSE "ok"

\* the checks aspirate makes after it has recorded source, smear and volume
AspirateLateError(loc) ==
    IF loc.kind = "well"
    THEN IF ~InRegistry(loc) THEN "UnknownReagent" ELSE "ok"
    ELSE IF loc.z < 0 THEN "NegativeZ" ELSE "ok"

AspirateError(volume, loc) ==
    IF AspirateEarlyError(volume, loc) # "ok"
    THEN AspirateEarlyError(volume, loc)
    ELSE AspirateLateError(loc)

\* the reagent name as it would be if a bare location kept the one held
AspirateColor_KeepsReagent(loc) ==
    IF loc.kind = "well" THEN loc.well_color ELSE curr_color

\* the reagent name aspirate stores in curr_color
AspirateColor(loc) == IF loc.kind = "well" THEN loc.well_color ELSE "white"

\* self.current_volume += volume
VolumeAfterAspirate(volume) == current_volume + volume

aspirate(volume, loc) ==
    /\ CanCall
    /\ Called("aspirate", AspirateError(volume, loc), volume)
    /\ IF AspirateEarlyError(volume, loc) # "ok"
       THEN UNCHANGED <<aspirated_loc, smears, justDispensedAt,
                        current_volume, curr_color, totalAspirated, location>>
       ELSE /\ aspirated_loc' = loc
            /\ smears' = SmearsAfter(loc)
            /\ justDispensedAt' = None
            /\ current_volume' = VolumeAfterAspirate(volume)
            /\ IF AspirateLateError(loc) # "ok"
               THEN UNCHANGED <<curr_color, totalAspirated, location>>
               ELSE /\ curr_color' = AspirateColor(loc)
                    /\ totalAspirated' =
                           DictAdd(totalAspirated, AspirateColor(loc), volume)
                    /\ location' = loc
    /\ UNCHANGED <<has_tip, tip_count, droplets_x, droplets_y, droplets_size,
                   droplets_color, totalDispensed>>
    /\ Recorded("aspirate", AspirateError(volume, loc), loc)
    /\ Followed("aspirate", volume, loc)
    /\ UNCHANGED outside

(* PipetteSim.dispense *)

OutsideSafeArea(loc) ==
    loc.x * loc.x + loc.y * loc.y > Mm(MAX_DRAW_RADIUS) * Mm(MAX_DRAW_RADIUS)

\* dispense as it would be without the check of the safe area
DispenseError_NoBoundsCheck(volume, loc) ==
    IF ~has_tip THEN "NoTip"
    ELSE IF current_volume < volume THEN "InsufficientVolume"
    ELSE IF volume <= 0 THEN "InvalidVolume"
    ELSE IF loc.z < 0 THEN "NegativeZ"
    ELSE "ok"

\* dispense as it would be if the tip were checked before the target
DispenseError_TipFirst(volume, loc) ==
    IF ~has_tip THEN "NoTip"
    ELSE IF OutsideSafeArea(loc) THEN "OutOfBounds"
    ELSE IF current_volume < volume THEN "InsufficientVolume"
    ELSE IF volume <= 0 THEN "InvalidVolume"
    ELSE IF loc.z < 0 THEN "NegativeZ"
    ELSE "ok"

\* dispense as it would be without the tip check
DispenseError_NoTipCheck(volume, loc) ==
    IF OutsideSafeArea(loc) THEN "OutOfBounds"
    ELSE IF current_volume < volume THEN "InsufficientVolume"
    ELSE IF volume <= 0 THEN "InvalidVolume"
    ELSE IF loc.z < 0 THEN "NegativeZ"
    ELSE "ok"

\* dispense as it would be if it did not compare the volume with what is held
DispenseError_NoVolumeCheck(volume, loc) ==
    IF OutsideSafeArea(loc) THEN "OutOfBounds"
    ELSE IF ~has_tip THEN "NoTip"
    ELSE IF volume <= 0 THEN "InvalidVolume"
    ELSE IF loc.z < 0 THEN "NegativeZ"
    ELSE "ok"

DispenseError(volume, loc) ==
    IF OutsideSafeArea(loc) THEN "OutOfBounds"
    ELSE IF ~has_tip THEN "NoTip"
    ELSE IF current_volume < volume THEN "InsufficientVolume"
    ELSE IF volume <= 0 THEN "InvalidVolume"
    ELSE IF loc.z < 0 THEN "NegativeZ"
    ELSE "ok"

\* dispense as it would be if it emptied the tip
VolumeAfterDispense_Empties(volume) == 0

\* self.current_volume -= volume
VolumeAfterDispense(volume) == current_volume - volume

\* the size of the droplet as it would be without the scale factor
DropletSize_Unscaled(volume) == volume

\* volume * 100: 1 microlitre is drawn as 100 square points
DropletSize(volume) == volume * 100

dispense(volume, loc) ==
    /\ CanCall
    /\ Called("dispense", DispenseError(volume, loc), volume)
    /\ IF DispenseError(volume, loc) # "ok"
       THEN UNCHANGED <<smears, justDispensedAt, current_volume, droplets_x,
                        droplets_y, droplets_size, droplets_color,
                        totalDispensed, location>>
       ELSE /\ smears' = SmearsAfter(loc)
            /\ current_volume' = VolumeAfterDispense(volume)
            /\ droplets_x' = Append(droplets_x, loc.x)
            /\ droplets_y' = Append(droplets_y, loc.y)
            /\ droplets_size' = Append(droplets_size, DropletSize(volume))
            /\ droplets_color' =
                   Append(droplets_color, resolve_visual_color(curr_color))
            /\ totalDispensed' = DictAdd(totalDispensed, curr_color, volume)
            /\ location' = loc
            /\ justDispensedAt' = loc
    /\ UNCHANGED <<has_tip, tip_count, aspirated_loc, curr_color,
                   totalAspirated>>
    /\ Recorded("dispense", DispenseError(volume, loc), loc)
    /\ Followed("dispense", volume, loc)
    /\ UNCHANGED outside

(* PipetteSim.move_to *)

\* move_to as it would be if it asked for a tip
MoveToError_NeedsTip(loc) ==
    IF loc.z < 0 THEN "NegativeZ"
    ELSE IF ~has_tip THEN "NoTip"
    ELSE "ok"

MoveToError(loc) == IF loc.z < 0 THEN "NegativeZ" ELSE "ok"

\* move_to as it would be if it left the dispense mark pending
move_to_KeepsMark(loc) ==
    /\ CanCall
    /\ Called("move_to", MoveToError(loc), 0)
    /\ IF MoveToError(loc) # "ok"
       THEN UNCHANGED <<smears, justDispensedAt, location>>
       ELSE /\ smears' = SmearsAfter(loc)
            /\ UNCHANGED justDispensedAt
            /\ location' = loc
    /\ UNCHANGED <<has_tip, tip_count, current_volume, aspirated_loc,
                   curr_color, droplets_x, droplets_y, droplets_size,
                   droplets_color, totalAspirated, totalDispensed>>
    /\ Recorded("move_to", MoveToError(loc), loc)
    /\ Followed("move_to", 0, loc)
    /\ UNCHANGED outside

move_to(loc) ==
    /\ CanCall
    /\ Called("move_to", MoveToError(loc), 0)
    /\ IF MoveToError(loc) # "ok"
       THEN UNCHANGED <<smears, justDispensedAt, location>>
       ELSE /\ smears' = SmearsAfter(loc)
            /\ justDispensedAt' = None
            /\ location' = loc
    /\ UNCHANGED <<has_tip, tip_count, current_volume, aspirated_loc,
                   curr_color, droplets_x, droplets_y, droplets_size,
                   droplets_color, totalAspirated, totalDispensed>>
    /\ Recorded("move_to", MoveToError(loc), loc)
    /\ Followed("move_to", 0, loc)
    /\ UNCHANGED outside

(* PipetteSim.blow_out *)

\* blow_out as it would be if it cleared the source of the tip as well
blow_out_ClearsSource ==
    /\ CanCall
    /\ Called("blow_out", "ok", 0)
    /\ current_volume' = 0
    /\ aspirated_loc' = None
    /\ UNCHANGED <<has_tip, tip_count, curr_color, location,
                   justDispensedAt, droplets_x, droplets_y, droplets_size,
                   droplets_color, smears, totalAspirated, totalDispensed>>
    /\ Recorded("blow_out", "ok", None)
    /\ Followed("blow_out", 0, None)
    /\ UNCHANGED outside

blow_out ==
    /\ CanCall
    /\ Called("blow_out", "ok", 0)
    /\ current_volume' = 0
    /\ UNCHANGED <<has_tip, tip_count, aspirated_loc, curr_color, location,
                   justDispensedAt, droplets_x, droplets_y, droplets_size,
                   droplets_color, smears, totalAspirated, totalDispensed>>
    /\ Recorded("blow_out", "ok", None)
    /\ Followed("blow_out", 0, None)
    /\ UNCHANGED outside

-----------------------------------------------------------------------------
(* visualization.py: the volume summary printed from the totals *)

\* dict.get(key, 0)
DictGet(d, key) == IF key \in DOMAIN d THEN d[key] ELSE 0

\* total_aspirated.keys() | total_dispensed.keys()
all_colors == DOMAIN totalAspirated \cup DOMAIN totalDispensed

\* the line of the reagent ends with the WASTE text
waste(color) == DictGet(totalAspirated, color) # DictGet(totalDispensed, color)

\* the reagents whose line of the summary carries the WASTE text
_print_volume_summary == { color \in all_colors : waste(color) }

-----------------------------------------------------------------------------
(* cli.py *)

\* the status main leaves the process with when simulate_protocol raised
\* the given error; "ok" when it returned
main(raised) ==
    CASE raised = "ok" -> 0
      [] raised = "FileNotFoundError" -> 1
      [] OTHER -> 1

-----------------------------------------------------------------------------
(* A protocol script: any sequence of at most MaxCalls calls *)

Aspirate == \E volume \in AspirateVolumes, loc \in AspirateSources : aspirate(volume, loc)

Dispense == \E volume \in DispenseVolumes, loc \in DispenseLocations : dispense(volume, loc)

MoveTo == \E loc \in DispenseLocations : move_to(loc)

Next ==
    \/ pick_up_tip
    \/ drop_tip
    \/ Aspirate
    \/ Dispense
    \/ MoveTo
    \/ blow_out

Spec == Init /\ [][Next]_vars

-----------------------------------------------------------------------------
(* A drawing script: at most MaxDrawingCalls calls that pick up and drop     *)
(* tips, draw liquid from the plate and place droplets on the agar           *)

DrawingSources == { PlateWell("A1"), PlateWell("D6") }

DrawingLocations ==
    { Location(0, 0, 0, "Well"),
      Location(Mm(5), Mm(5), 0, "Well"),
      Location(0, 0, Mm(2), "Well") }

InitDrawing ==
    Constructed /\ calls_left = MaxDrawingCalls /\ NothingResolved /\ Running

DrawingAspirate == \E loc \in DrawingSources : aspirate(5, loc)

DrawingDispense ==
    \E volume \in {2, 3}, loc \in DrawingLocations : dispense(volume, loc)

DrawingMoveTo == \E loc \in DrawingLocations : move_to(loc)

NextDrawing ==
    \/ pick_up_tip
    \/ drop_tip
    \/ DrawingAspirate
    \/ DrawingDispense
    \/ DrawingMoveTo
    \/ blow_out

SpecDrawing == InitDrawing /\ [][NextDrawing]_vars

-----------------------------------------------------------------------------
(* A caller of resolve_visual_color: it writes a name, in any mix of small   *)
(* and capital letters and with whitespace anywhere, and has it resolved     *)

\* the variables of the pipette, which resolve_visual_color does not touch
pipette ==
    <<has_tip, tip_count, current_volume, aspirated_loc, curr_color,
      location, justDispensedAt, droplets_x, droplets_y, droplets_size,
      droplets_color, smears, totalAspirated, totalDispensed, op, result,
      calls_left, aspirated_run, since_drop, script_step, tip_reagent,
      dispenses, drop_tips>>

\* the names written: two keys of the table, the synonym, a colour, no key
Words ==
    { <<"s", "f", "g", "f", "p">>, <<"e", "g", "f", "p">>,
      <<"g", "r", "e", "e", "n">>, <<"r", "e", "d">>, <<"g", "f", "p">> }

\* the capital letter of a small one
Capital(c) == CHOOSE C \in DOMAIN Uppercase : Uppercase[C] = c

InitColors ==
    /\ Constructed /\ calls_left = 0 /\ Running
    /\ protein_or_color_name = <<>>
    /\ visual = None

WriteWord ==
    /\ visual = None
    /\ protein_or_color_name = <<>>
    /\ \E w \in Words : protein_or_color_name' = w
    /\ UNCHANGED <<visual, pipette, stage, exception, mock_pipette,
                   save_path, rendered, written>>

Capitalise ==
    /\ visual = None
    /\ \E i \in DOMAIN protein_or_color_name :
          /\ \E C \in DOMAIN Uppercase :
                Uppercase[C] = protein_or_color_name[i]
          /\ protein_or_color_name' =
                 [protein_or_color_name
                      EXCEPT ![i] = Capital(protein_or_color_name[i])]
    /\ UNCHANGED <<visual, pipette, stage, exception, mock_pipette,
                   save_path, rendered, written>>

InsertWhitespace ==
    /\ visual = None
    /\ Len(protein_or_color_name) < MaxLen
    /\ \E i \in 0..Len(protein_or_color_name), c \in Whitespace :
          protein_or_color_name' =
              SubSeq(protein_or_color_name, 1, i) \o <<c>>
              \o SubSeq(protein_or_color_name, i + 1,
                        Len(protein_or_color_name))
    /\ UNCHANGED <<visual, pipette, stage, exception, mock_pipette,
                   save_path, rendered, written>>

Resolve ==
    /\ visual = None
    /\ visual' = [kind |-> "str",
                  chars |-> resolve_visual_color_chars(protein_or_color_name)]
    /\ UNCHANGED <<protein_or_color_name, pipette, stage, exception,
                   mock_pipette, save_path, rendered, written>>

NextColors ==
    \/ WriteWord
    \/ Capitalise
    \/ InsertWhitespace
    \/ Resolve

SpecColors == InitColors /\ [][NextColors]_vars

-----------------------------------------------------------------------------
(* A caller that resolves a key of the table or 'green' and resolves the     *)
(* colour it gets once more                                                  *)

InitTable ==
    /\ Constructed /\ calls_left = 0 /\ Running
    /\ protein_or_color_name \in
           DOMAIN PROTEIN_VISUAL_COLORS \cup {<<"g", "r", "e", "e", "n">>}
    /\ visual = None

\* resolve_visual_color(resolve_visual_color(name))
ResolveAgain ==
    /\ visual # None
    /\ protein_or_color_name' = visual.chars
    /\ visual' = [kind |-> "str",
                  chars |-> resolve_visual_color_chars(visual.chars)]
    /\ UNCHANGED <<pipette, stage, exception, mock_pipette, save_path,
                   rendered, written>>

NextTable ==
    \/ Resolve
    \/ ResolveAgain

SpecTable == InitTable /\ [][NextTable]_vars

-----------------------------------------------------------------------------
(* simulate_protocol: a protocol file is loaded, its run() is given a fresh  *)
(* OpentronsMock and makes at most MaxRunCalls pipette calls, catching the   *)
(* errors or not, and the mock is visualized                                 *)

\* what can be at protocol_file_path: nothing, a module without a run
\* function, a module with one
ProtocolFiles == {"missing", "no_run", "protocol"}

InitSimulate ==
    /\ Constructed /\ calls_left = MaxRunCalls /\ NothingResolved
    /\ stage = "called"
    /\ exception = "ok"
    /\ mock_pipette = None
    /\ save_path \in {"", "out.png"}
    /\ rendered = 0
    /\ written = 0

\* from the call to the call of mod.run(mock)
simulate_protocol_load(file) ==
    /\ stage = "called"
    /\ IF file = "missing"
       THEN stage' = "raised" /\ exception' = "FileNotFoundError"
       ELSE IF file = "no_run"
            THEN stage' = "raised" /\ exception' = "AttributeError"
            ELSE stage' = "run" /\ exception' = "ok"
    /\ mock_pipette' = None
    /\ UNCHANGED <<pipette, protein_or_color_name, visual, save_path,
                   rendered, written>>

\* OpentronsMock.load_instrument, called by run(): a new PipetteSim
load_instrument ==
    /\ stage = "run"
    /\ mock_pipette' = [kind |-> "PipetteSim"]
    /\ has_tip' = FALSE
    /\ tip_count' = 0
    /\ current_volume' = 0
    /\ aspirated_loc' = None
    /\ curr_color' = "orange"
    /\ location' = _null_location
    /\ justDispensedAt' = None
    /\ droplets_x' = <<>>
    /\ droplets_y' = <<>>
    /\ droplets_size' = <<>>
    /\ droplets_color' = <<>>
    /\ smears' = <<>>
    /\ totalAspirated' = <<>>
    /\ totalDispensed' = <<>>
    /\ op' = "__init__"
    /\ result' = "ok"
    /\ aspirated_run' = -1
    /\ since_drop' = None
    /\ script_step' = 0
    /\ tip_reagent' = ""
    /\ dispenses' = 0
    /\ drop_tips' = 0
    /\ UNCHANGED <<calls_left, protein_or_color_name, visual, stage,
                   exception, save_path, rendered, written>>

\* run() lets the error of its last pipette call go on to the caller of
\* simulate_protocol, the statements after mod.run(mock) being skipped
run_raises_ThenRenders ==
    /\ stage = "run"
    /\ result # "ok"
    /\ stage' = "returned"
    /\ exception' = result
    /\ UNCHANGED <<pipette, protein_or_color_name, visual, mock_pipette,
                   save_path, rendered, written>>

\* run() does not catch the error of its last pipette call: it goes on to
\* the caller of simulate_protocol
run_raises ==
    /\ stage = "run"
    /\ result # "ok"
    /\ stage' = "raised"
    /\ exception' = result
    /\ UNCHANGED <<pipette, protein_or_color_name, visual, mock_pipette,
                   save_path, rendered, written>>

\* run() returns
run_returns ==
    /\ stage = "run"
    /\ stage' = "returned"
    /\ UNCHANGED <<pipette, protein_or_color_name, visual, exception,
                   mock_pipette, save_path, rendered, written>>

\* mock.visualize(...) and the return of simulate_protocol: without a
\* pipette nothing is rendered, with one visualize_petri renders the
\* drawing and writes the image if a save_path was given
mock_visualize ==
    /\ stage = "returned"
    /\ stage' = "done"
    /\ IF mock_pipette # None
       THEN /\ rendered' = rendered + 1
            /\ written' = IF save_path # "" THEN written + 1 ELSE written
       ELSE UNCHANGED <<rendered, written>>
    /\ UNCHANGED <<pipette, protein_or_color_name, visual, exception,
                   mock_pipette, save_path>>

NextSimulate ==
    \/ \E file \in ProtocolFiles : simulate_protocol_load(file)
    \/ load_instrument
    \/ pick_up_tip
    \/ drop_tip
    \/ DrawingAspirate
    \/ DrawingDispense
    \/ DrawingMoveTo
    \/ blow_out
    \/ run_raises
    \/ run_returns
    \/ mock_visualize

SpecSimulate == InitSimulate /\ [][NextSimulate]_vars

-----------------------------------------------------------------------------
(* Properties *)

\* a source from which an aspirate can succeed: a well of the registry
\* (ids compared in upper case) or a location at or above the surface
ValidSource(src) ==
    IF src.kind = "well"
    THEN \E wid \in DOMAIN well_colors : Upper(wid) = Upper(src.well_id)
    ELSE src.z >= 0

\* the tip mounted has successfully aspirated from its recorded source
TipHasDrawn == has_tip /\ aspirated_loc # None /\ ValidSource(aspirated_loc)

\* x^2 + y^2 > R^2 with R = 40 mm
BeyondRadius(loc) ==
    loc.x * loc.x + loc.y * loc.y > (40 * UnitsPerMm) * (40 * UnitsPerMm)

\* the two locations are different 2-D places
Different2D(p1, p2) ==
    p1.x # p2.x \/ p1.y # p2.y \/ p1.labware # p2.labware

\* the smear record s runs from p1 to the midpoint of p1 and p2
RunsHalfWay(s, p1, p2) ==
    /\ s.xs[1] = p1.x /\ 2 * s.xs[2] = p1.x + p2.x
    /\ s.ys[1] = p1.y /\ 2 * s.ys[2] = p1.y + p2.y

\* C1: after any sequence of calls, failed ones included, the volume held
\* is between 0 and max_volume
C1_VolumeInRange == 0 <= current_volume /\ current_volume <= max_volume

\* a full tip after a call that raised
C1_Witness ==
    op = "aspirate" /\ result = "CapacityExceeded" /\ current_volume = max_volume

\* C2: without a tip the pipette holds no liquid and has no recorded source
C2_NoTipNoLiquid == ~has_tip => (current_volume = 0 /\ aspirated_loc = None)

\* a tip that had drawn liquid has just been dropped
C2_Witness ==
    ~has_tip /\ op = "drop_tip" /\ result = "ok" /\ DOMAIN totalAspirated # {}

\* C3 as stated: once the tip has drawn from A, every aspirate from a
\* source B # A fails with the cross-contamination error
C3_EveryOtherSourceIsCrossContamination ==
    [][(op' = "aspirate" /\ TipHasDrawn) =>
          \A v \in AspirateVolumes, B \in AspirateSources \ {aspirated_loc} :
              aspirate(v, B) => result' = "CrossContamination"]_vars

\* C3 amended: once the tip has drawn from A, every aspirate from a source
\* B # A fails and leaves the volume as it was, with the cross-contamination
\* error when its volume is positive and within capacity; an aspirate from A
\* with a positive volume within capacity succeeds and adds its volume
C3_SingleSourcePerTip ==
    [][(op' = "aspirate" /\ TipHasDrawn) =>
          \A v \in AspirateVolumes, B \in AspirateSources :
              aspirate(v, B) =>
              /\ B # aspirated_loc =>
                    /\ result' # "ok"
                    /\ current_volume' = current_volume
                    /\ aspirated_loc' = aspirated_loc
                    /\ (v > 0 /\ current_volume + v <= max_volume)
                           => result' = "CrossContamination"
              /\ (B = aspirated_loc /\ v > 0 /\ current_volume + v <= max_volume)
                    => (result' = "ok" /\ current_volume' = current_volume + v)]_vars

\* an aspirate from a second source was refused for cross-contamination
C3_Witness ==
    /\ op = "aspirate" /\ result = "CrossContamination"
    /\ TipHasDrawn /\ current_volume > 0

\* C4: in a sequence of aspirates after a pick_up_tip the volumes of the
\* successful ones never add up to more than max_volume; with a tip, an
\* aspirate beyond the capacity fails with the capacity error and leaves the
\* volume unchanged; an otherwise valid one reaching max_volume succeeds
C4_Capacity ==
    /\ [](aspirated_run <= max_volume)
    /\ [][(op' = "aspirate" /\ has_tip) =>
            \A v \in AspirateVolumes, src \in AspirateSources :
              aspirate(v, src) =>
                /\ current_volume + v > max_volume
                      => (result' = "CapacityExceeded"
                          /\ current_volume' = current_volume)
                /\ (/\ current_volume + v = max_volume /\ v > 0
                    /\ ValidSource(src) /\ aspirated_loc \in {None, src})
                      => (result' = "ok" /\ current_volume' = max_volume)]_vars

\* aspirates filled the tip and a further one was refused
C4_Witness ==
    /\ op = "aspirate" /\ result = "CapacityExceeded"
    /\ aspirated_run = max_volume

\* C5: a successful dispense of v lowers the volume held by exactly v and a
\* successful aspirate of v raises it by exactly v
C5_Conservation ==
    [][/\ (op' = "dispense" /\ result' = "ok") =>
             \A v \in DispenseVolumes, loc \in DispenseLocations :
                 dispense(v, loc) => current_volume' = current_volume - v
       /\ (op' = "aspirate" /\ result' = "ok") =>
             \A v \in AspirateVolumes, src \in AspirateSources :
                 aspirate(v, src) => current_volume' = current_volume + v]_vars

\* a dispense of part of the liquid
C5_Witness == op = "dispense" /\ result = "ok" /\ current_volume > 0

\* C6: pick_up_tip fails when a tip is mounted, drop_tip fails when none is;
\* tip_count grows by one on each successful pick_up_tip and never otherwise
C6_TipLifecycle ==
    [][/\ (op' = "pick_up_tip" /\ has_tip)
             => (result' = "AlreadyHoldingTip" /\ has_tip')
       /\ (op' = "drop_tip" /\ ~has_tip) => (result' = "NoTip" /\ ~has_tip')
       /\ tip_count' = IF op' = "pick_up_tip" /\ result' = "ok"
                       THEN tip_count + 1 ELSE tip_count]_vars

\* a second pick_up_tip was refused
C6_Witness ==
    op = "pick_up_tip" /\ result = "AlreadyHoldingTip" /\ tip_count = 1

\* C7: a dispense beyond the radius fails with the out-of-bounds error in
\* every state and records no droplet; a dispense within it (boundary
\* included) with a tip, 0 < volume <= current_volume and z >= 0 succeeds
C7_BoundsCheck ==
    [][op' = "dispense" =>
          \A v \in DispenseVolumes, loc \in DispenseLocations :
              dispense(v, loc) =>
              /\ BeyondRadius(loc) =>
                    /\ result' = "OutOfBounds"
                    /\ UNCHANGED <<droplets_x, droplets_y, droplets_size,
                                   droplets_color>>
              /\ (/\ ~BeyondRadius(loc) /\ has_tip /\ 0 < v
                  /\ v <= current_volume /\ loc.z >= 0)
                    => (result' = "ok"
                        /\ Len(droplets_x') = Len(droplets_x) + 1)]_vars

\* a dispense beyond the radius was refused as such although no tip is mounted
C7_Witness == op = "dispense" /\ result = "OutOfBounds" /\ ~has_tip

\* C8: an aspirate that raises leaves volume, source, reagent, totals,
\* location and droplets as they were
C8_FailedAspirateChangesNothing ==
    [][(op' = "aspirate" /\ result' # "ok") =>
          \A v \in AspirateVolumes, src \in AspirateSources :
              aspirate(v, src) =>
              UNCHANGED <<current_volume, aspirated_loc, curr_color,
                          totalAspirated, totalDispensed, location,
                          droplets_x, droplets_y, droplets_size,
                          droplets_color>>]_vars

\* C9: when a dispense mark is pending and pick_up_tip, drop_tip, aspirate,
\* dispense or move_to fails, the mark has been resolved all the same
C9_SmearCommitsBeforeValidation ==
    [][(/\ justDispensedAt # None
        /\ op' \in {"pick_up_tip", "drop_tip", "aspirate", "dispense", "move_to"}
        /\ result' # "ok")
           => justDispensedAt' = None]_vars

\* C10 as stated: a successful dispense at P2 that follows a successful
\* dispense at P1, directly or with aspirates in between, finds exactly one
\* smear added since the first droplet when the places differ, from P1 to the
\* midpoint of P1 and P2, and none when it directly follows at the same place
C10_OneSmearAlsoAfterReaspirate ==
    [][(/\ op' = "dispense" /\ result' = "ok"
        /\ since_drop # None
        /\ since_drop.between \in {"none", "aspirate"}) =>
          \A v \in DispenseVolumes, P2 \in DispenseLocations :
              dispense(v, P2) =>
              IF Different2D(since_drop.loc, P2)
              THEN /\ Len(smears') = since_drop.nsmears + 1
                   /\ RunsHalfWay(smears'[Len(smears')], since_drop.loc, P2)
              ELSE since_drop.between = "none"
                       => Len(smears') = since_drop.nsmears]_vars

\* C10 amended: a successful dispense at P2 directly after a successful
\* dispense at P1 adds exactly one smear from P1 to the midpoint of P1 and P2
\* when the places differ and none when they are the same; when the pipette
\* aspirates in between, the aspirate resolves the mark against its source
\* (one smear from P1 half-way to the source's place on the canvas, none when
\* that is the same place) and the second dispense adds none
C10_SmearEmission ==
    [][(/\ op' = "dispense" /\ result' = "ok"
        /\ since_drop # None
        /\ since_drop.between \in {"none", "aspirate"}) =>
          \A v \in DispenseVolumes, P2 \in DispenseLocations :
              dispense(v, P2) =>
              LET P1 == since_drop.loc
                  target == IF since_drop.between = "none" THEN P2
                            ELSE SmearTarget(aspirated_loc)
              IN  IF Different2D(P1, target)
                  THEN /\ Len(smears') = since_drop.nsmears + 1
                       /\ RunsHalfWay(smears'[Len(smears')], P1, target)
                  ELSE Len(smears') = since_drop.nsmears]_vars

\* two droplets at different places, one directly after the other, one smear
C10_Witness ==
    /\ op = "dispense" /\ result = "ok"
    /\ Len(droplets_x) = 2 /\ droplets_x[1] # droplets_x[2]
    /\ Len(smears) = 1
    /\ 2 * smears[1].xs[2] = droplets_x[1] + droplets_x[2]
    /\ 2 * smears[1].ys[2] = droplets_y[1] + droplets_y[2]

\* C11 as stated: after pick_up_tip, aspirate(5, A1), dispense(3, (0,0,0)),
\* dispense(2, (5,5,0)), drop_tip on a new pipette there are exactly two
\* droplets, of sizes 300 and 200, exactly one smear, from (0,0) to
\* (2.5,2.5), no liquid held, one tip used, and 5 uL of sfGFP both
\* aspirated and dispensed
C11_OneSmearAfterDropTip ==
    script_step = 5 =>
        /\ droplets_size = <<300, 200>>
        /\ Len(droplets_x) = 2 /\ Len(droplets_y) = 2
        /\ Len(droplets_color) = 2
        /\ Len(smears) = 1
        /\ smears[1].xs = <<0, (5 * UnitsPerMm) \div 2>>
        /\ smears[1].ys = <<0, (5 * UnitsPerMm) \div 2>>
        /\ current_volume = 0
        /\ tip_count = 1
        /\ totalAspirated = ("sfGFP" :> 5)
        /\ totalDispensed = ("sfGFP" :> 5)

\* C11 amended: the same sequence has, before its drop_tip, exactly one
\* smear, from (0,0) to (2.5,2.5), and 0 uL held; drop_tip appends a second
\* smear, from (5,5) half-way to the drop point (40,40), so that the sequence
\* ends with two droplets of sizes 300 and 200, two smears, no liquid held,
\* one tip used, and 5 uL of sfGFP both aspirated and dispensed
C11_EndToEnd ==
    /\ script_step \in {4, 5} =>
          /\ droplets_x = <<0, 5 * UnitsPerMm>>
          /\ droplets_y = <<0, 5 * UnitsPerMm>>
          /\ droplets_size = <<300, 200>>
          /\ Len(droplets_color) = 2
          /\ Len(smears) >= 1
          /\ smears[1].xs = <<0, (5 * UnitsPerMm) \div 2>>
          /\ smears[1].ys = <<0, (5 * UnitsPerMm) \div 2>>
          /\ current_volume = 0
          /\ tip_count = 1
          /\ totalAspirated = ("sfGFP" :> 5)
          /\ totalDispensed = ("sfGFP" :> 5)
    /\ script_step = 4 => Len(smears) = 1
    /\ script_step = 5 =>
          /\ Len(smears) = 2
          /\ smears[2].xs = <<5 * UnitsPerMm, (45 * UnitsPerMm) \div 2>>
          /\ smears[2].ys = <<5 * UnitsPerMm, (45 * UnitsPerMm) \div 2>>

\* the five calls have been made and the last one, drop_tip, succeeded
C11_Witness == script_step = 5 /\ op = "drop_tip" /\ result = "ok"

\* C12: with a tip mounted and a target within the radius, a dispense of more
\* than is held fails with the insufficient-volume error, records no droplet
\* and leaves the volume held and the dispensed totals as they were
C12_InsufficientVolume ==
    [][(op' = "dispense" /\ has_tip) =>
          \A v \in DispenseVolumes, loc \in DispenseLocations :
              (~BeyondRadius(loc) /\ v > current_volume /\ dispense(v, loc)) =>
                  /\ result' = "InsufficientVolume"
                  /\ UNCHANGED <<droplets_x, droplets_y, droplets_size,
                                 droplets_color, current_volume,
                                 totalDispensed>>]_vars

\* a dispense of more than the rest of the liquid was refused
C12_Witness ==
    /\ op = "dispense" /\ result = "InsufficientVolume"
    /\ has_tip /\ current_volume > 0 /\ Len(droplets_x) = 1

\* C13 as stated: without a tip every aspirate and every dispense, whatever
\* its volume and target, fails with the no-tip error and changes neither the
\* volume held nor the trail
C13_AlwaysNoTipError ==
    [][(op' \in {"aspirate", "dispense"} /\ ~has_tip) =>
          /\ result' = "NoTip"
          /\ UNCHANGED <<current_volume, droplets_x, droplets_y,
                         droplets_size, droplets_color, smears>>]_vars

\* C13 amended: without a tip every aspirate fails with the no-tip error;
\* a dispense fails with the no-tip error when its target is within the
\* radius and with the out-of-bounds error when it is beyond; neither
\* changes the volume held or the trail
C13_NoTipMounted ==
    [][/\ (op' = "aspirate" /\ ~has_tip) => result' = "NoTip"
       /\ (op' = "dispense" /\ ~has_tip) =>
             \A v \in DispenseVolumes, loc \in DispenseLocations :
                 dispense(v, loc) =>
                     result' = IF BeyondRadius(loc) THEN "OutOfBounds"
                               ELSE "NoTip"
       /\ (op' \in {"aspirate", "dispense"} /\ ~has_tip) =>
             UNCHANGED <<current_volume, droplets_x, droplets_y,
                         droplets_size, droplets_color, smears>>]_vars

\* a dispense within the radius was refused for want of a tip
C13_Witness ==
    /\ op = "dispense" /\ result = "NoTip" /\ ~has_tip /\ tip_count = 1

\* C14: with a tip mounted, an aspirate of a volume <= 0, and a dispense of
\* a volume <= 0 at a target within the radius, fail with the invalid-volume
\* error whatever volume is held, and leave the volume, the totals and the
\* trail as they were
C14_InvalidVolume ==
    [][/\ (op' = "aspirate" /\ has_tip) =>
             \A v \in AspirateVolumes, src \in AspirateSources :
                 (v <= 0 /\ aspirate(v, src)) =>
                     /\ result' = "InvalidVolume"
                     /\ UNCHANGED <<current_volume, totalAspirated,
                                    totalDispensed, droplets_x, droplets_y,
                                    droplets_size, droplets_color, smears>>
       /\ (op' = "dispense" /\ has_tip) =>
             \A v \in DispenseVolumes, loc \in DispenseLocations :
                 (v <= 0 /\ ~BeyondRadius(loc) /\ dispense(v, loc)) =>
                     /\ result' = "InvalidVolume"
                     /\ UNCHANGED <<current_volume, totalAspirated,
                                    totalDispensed, droplets_x, droplets_y,
                                    droplets_size, droplets_color, smears>>]_vars

\* a volume that is not positive was refused as such by a full tip
C14_Witness ==
    /\ op \in {"aspirate", "dispense"} /\ result = "InvalidVolume"
    /\ has_tip /\ current_volume = max_volume

\* dict.get(key, 0) as the claims read the totals
TotalOf(d, key) == IF key \in DOMAIN d THEN d[key] ELSE 0

\* C15: a successful dispense(v, loc) appends exactly one droplet with
\* x = loc.x, y = loc.y, size = 100 v and the visual colour of the reagent
\* held, adds v to the dispensed total of that reagent and sets location and
\* the pending mark to loc; a failed dispense appends nothing
C15_DropletRecording ==
    [][op' = "dispense" =>
          \A v \in DispenseVolumes, loc \in DispenseLocations :
              dispense(v, loc) =>
                  IF result' = "ok"
                  THEN /\ droplets_x' = droplets_x \o <<loc.x>>
                       /\ droplets_y' = droplets_y \o <<loc.y>>
                       /\ droplets_size' = droplets_size \o <<100 * v>>
                       /\ droplets_color' =
                              droplets_color \o <<resolve_visual_color(curr_color)>>
                       /\ DOMAIN totalDispensed' =
                              DOMAIN totalDispensed \cup {curr_color}
                       /\ \A c \in DOMAIN totalDispensed' :
                              totalDispensed'[c] =
                                  TotalOf(totalDispensed, c)
                                  + (IF c = curr_color THEN v ELSE 0)
                       /\ location' = loc
                       /\ justDispensedAt' = loc
                  ELSE UNCHANGED <<droplets_x, droplets_y, droplets_size,
                                   droplets_color>>]_vars

\* a second droplet of a reagent whose visual colour differs from its name
C15_Witness ==
    /\ op = "dispense" /\ result = "ok"
    /\ Len(droplets_x) = 2 /\ droplets_size[2] = 300
    /\ curr_color = "sfGFP" /\ droplets_color[2] = "lime"

\* the sequence s is the beginning of the sequence t
IsPrefix(s, t) == Len(s) <= Len(t) /\ SubSeq(t, 1, Len(s)) = s

\* C16: every call leaves each droplet list and the smear list as it was or
\* longer at the end, so that a record once written stays, unchanged and at
\* its index, in every later state
C16_AppendOnly ==
    [][/\ IsPrefix(droplets_x, droplets_x')
       /\ IsPrefix(droplets_y, droplets_y')
       /\ IsPrefix(droplets_size, droplets_size')
       /\ IsPrefix(droplets_color, droplets_color')
       /\ IsPrefix(smears, smears')]_vars

\* a trail of three droplets and two smears
C16_Witness == Len(droplets_x) = 3 /\ Len(smears) = 2

\* C17: move_to(loc) with loc.z >= 0 succeeds in every state, sets location
\* to loc, appends at most one smear and leaves tip, tip count, volume,
\* source, reagent, totals and droplets as they were; with loc.z < 0 it fails
\* with the negative-z error and leaves location as it was
C17_MoveTo ==
    [][op' = "move_to" =>
          \A loc \in DispenseLocations :
              move_to(loc) =>
                  IF loc.z >= 0
                  THEN /\ result' = "ok"
                       /\ location' = loc
                       /\ Len(smears') \in {Len(smears), Len(smears) + 1}
                       /\ SubSeq(smears', 1, Len(smears)) = smears
                       /\ UNCHANGED <<has_tip, tip_count, current_volume,
                                      aspirated_loc, curr_color,
                                      totalAspirated, totalDispensed,
                                      droplets_x, droplets_y, droplets_size,
                                      droplets_color>>
                  ELSE /\ result' = "NegativeZ"
                       /\ UNCHANGED location]_vars

\* a pipette without tip has moved to a place beyond the drawing radius
C17_Witness ==
    /\ op = "move_to" /\ result = "ok" /\ ~has_tip
    /\ location = Location(41 * UnitsPerMm, 0, 0, "Well")

\* C18: the summary flags a reagent as waste if and only if more of it was
\* aspirated than dispensed
C18_WasteFlagIffMoreAspirated ==
    \A color \in DOMAIN totalAspirated \cup DOMAIN totalDispensed :
        color \in _print_volume_summary
            <=> TotalOf(totalAspirated, color) > TotalOf(totalDispensed, color)

\* the id of the well matches a key of the registry when case is ignored
MatchesRegistry(well) ==
    \E wid \in DOMAIN well_colors : Upper(wid) = Upper(well.well_id)

\* C19 as stated: with a tip mounted, every aspirate from a well whose id
\* matches no key of the registry fails with the unknown-reagent error, and
\* no aspirate from a well whose id matches one does
C19_UnmatchedWellIsUnknownReagent ==
    [][(op' = "aspirate" /\ has_tip) =>
          \A v \in AspirateVolumes :
              \A src \in { s \in AspirateSources : s.kind = "well" } :
                  aspirate(v, src) =>
                      (result' = "UnknownReagent" <=> ~MatchesRegistry(src))]_vars

\* C19 amended: with a tip mounted, every aspirate from a well whose id
\* matches no key of the registry fails, with the unknown-reagent error when
\* its volume is positive and within capacity and the tip has no other
\* source recorded; no aspirate from a well whose id matches a key, case
\* ignored, fails with the unknown-reagent error
C19_UnknownReagent ==
    [][(op' = "aspirate" /\ has_tip) =>
          \A v \in AspirateVolumes :
              \A src \in { s \in AspirateSources : s.kind = "well" } :
                  aspirate(v, src) =>
                      IF MatchesRegistry(src)
                      THEN result' # "UnknownReagent"
                      ELSE /\ result' # "ok"
                           /\ (/\ v > 0
                               /\ current_volume + v <= max_volume
                               /\ aspirated_loc \in {None, src})
                                  => result' = "UnknownReagent"]_vars

\* an aspirate from a well that is not in the registry was refused as such
C19_Witness ==
    /\ op = "aspirate" /\ result = "UnknownReagent" /\ has_tip
    /\ aspirated_loc # None /\ ~MatchesRegistry(aspirated_loc)

\* C20: when a call of the protocol raises and the script lets the error
\* pass, main exits with a status that is not zero and that differs from
\* the status it exits with for a protocol file that does not exist
C20_ExitStatusTellsMissingFile ==
    result # "ok" =>
        /\ main(result) # 0
        /\ main(result) # main("FileNotFoundError")

\* the positions of chars that hold no whitespace
Inked(chars) == { i \in 1..Len(chars) : chars[i] \notin {" ", "\t"} }

\* chars without the whitespace at its two ends
Trimmed(chars) ==
    IF Inked(chars) = {} THEN <<>>
    ELSE SubSeq(chars,
                CHOOSE i \in Inked(chars) : \A j \in Inked(chars) : i <= j,
                CHOOSE i \in Inked(chars) : \A j \in Inked(chars) : i >= j)

\* small is chars with every capital letter replaced by its small one
IsLowerOf(small, chars) ==
    /\ Len(small) = Len(chars)
    /\ \A i \in 1..Len(chars) :
          small[i] = IF chars[i] \in DOMAIN Uppercase
                     THEN Uppercase[chars[i]] ELSE chars[i]

\* C21: resolve_visual_color returns, for every string, the value of the
\* table when the trimmed string in small letters is a key of the table,
\* else lime when that is green, else the string exactly as given
C21_ResolveVisualColor ==
    visual # None =>
        LET given == protein_or_color_name
            hits == { key \in DOMAIN PROTEIN_VISUAL_COLORS :
                          IsLowerOf(key, Trimmed(given)) }
        IN  IF hits # {}
            THEN \A key \in hits : visual.chars = PROTEIN_VISUAL_COLORS[key]
            ELSE IF IsLowerOf(<<"g", "r", "e", "e", "n">>, Trimmed(given))
                 THEN visual.chars = <<"l", "i", "m", "e">>
                 ELSE visual.chars = given

\* ' sfGFP ' was resolved to lime
C21_Witness ==
    /\ visual # None
    /\ protein_or_color_name = <<" ", "s", "f", "G", "F", "P", " ">>
    /\ visual.chars = <<"l", "i", "m", "e">>

\* C22: the dispense mark is None at first, is the target right after every
\* successful dispense, and is None right after every successful
\* pick_up_tip, drop_tip, aspirate and move_to, smear or no smear
C22_PendingMark ==
    /\ justDispensedAt = None
    /\ [][/\ (op' = "dispense" /\ result' = "ok") =>
                \A v \in DispenseVolumes, loc \in DispenseLocations :
                    dispense(v, loc) => justDispensedAt' = loc
          /\ (op' \in {"pick_up_tip", "drop_tip", "aspirate", "move_to"}
                 /\ result' = "ok") => justDispensedAt' = None]_vars

\* the hover move after a droplet has cleared the mark and left no smear
C22_Witness ==
    /\ op = "move_to" /\ result = "ok"
    /\ Len(droplets_x) = 1 /\ Len(smears) = 0
    /\ since_drop # None /\ since_drop.between = "other"
    /\ justDispensedAt = None

\* the step appends one smear when target is another 2-D place than the
\* pending mark and none when it is the same
SmearIffElsewhere(target) ==
    Len(smears') =
        Len(smears) + (IF Different2D(justDispensedAt, target) THEN 1 ELSE 0)

CanvasPosition(well) ==
    [x |-> (RowOrd(well.well_id) - 68) * ((40 * UnitsPerMm) \div 4),
     y |-> (ColNum(well.well_id) - 6) * ((40 * UnitsPerMm) \div 6),
     labware |-> "Well"]

\* C24: a successful aspirate from a well while a dispense mark is pending
\* appends one smear from the mark to the midpoint of the mark and the
\* well's canvas position, in the colour of the reagent held before the
\* aspirate, unless mark and position are the same 2-D place
C24_AspirateResolvesMark ==
    [][(justDispensedAt # None /\ op' = "aspirate" /\ result' = "ok") =>
          \A v \in AspirateVolumes :
              \A well \in { w \in AspirateSources : w.kind = "well" } :
                  aspirate(v, well) =>
                      IF Different2D(justDispensedAt, CanvasPosition(well))
                      THEN /\ Len(smears') = Len(smears) + 1
                           /\ SubSeq(smears', 1, Len(smears)) = smears
                           /\ RunsHalfWay(smears'[Len(smears')],
                                          justDispensedAt,
                                          CanvasPosition(well))
                           /\ smears'[Len(smears')].color =
                                  resolve_visual_color(curr_color)
                      ELSE smears' = smears]_vars

\* after a droplet at the centre the pipette has drawn again from A1, whose
\* canvas position is (-30, -33.3): one smear to (-15, -16.7)
C24_Witness ==
    /\ op = "aspirate" /\ result = "ok"
    /\ aspirated_loc # None /\ aspirated_loc.kind = "well"
    /\ Len(droplets_x) = 1 /\ droplets_x[1] = 0 /\ droplets_y[1] = 0
    /\ Len(smears) = 1
    /\ 2 * smears[1].xs[2] = -30 * UnitsPerMm
    /\ 6 * smears[1].ys[2] = -100 * UnitsPerMm

\* C25: a pick_up_tip that follows a successful drop_tip succeeds; every
\* tip picked up starts with no liquid and no source; and the first
\* aspirate of the new tip, from whichever well of the registry, succeeds
\* and makes that well the source, whatever the tip before had drawn from
C25_TipChangeResetsSource ==
    /\ []((op = "pick_up_tip" /\ result = "ok") =>
             (has_tip /\ current_volume = 0 /\ aspirated_loc = None))
    /\ [][/\ (op = "drop_tip" /\ result = "ok" /\ op' = "pick_up_tip")
                 => result' = "ok"
          /\ (op = "pick_up_tip" /\ result = "ok" /\ op' = "aspirate") =>
                \A B \in DrawingSources :
                    aspirate(5, B) =>
                        /\ result' = "ok"
                        /\ current_volume' = 5
                        /\ aspirated_loc' = B]_vars

\* the second tip has drawn from another well than the first
C25_Witness ==
    /\ op = "aspirate" /\ result = "ok"
    /\ tip_count = 2 /\ current_volume = 5
    /\ DOMAIN totalAspirated = {"sfGFP", "mRFP1"}

\* C26: drop_tip with liquid in the tip succeeds, empties the tip, clears
\* its source, moves to the drop point (40, 40, 0) and leaves droplets,
\* totals and tip count as they were, so that the totals show some reagent
\* with more aspirated than dispensed
C26_DropTipDiscardsLiquid ==
    [][(op' = "drop_tip" /\ has_tip /\ current_volume > 0) =>
          /\ result' = "ok"
          /\ current_volume' = 0
          /\ aspirated_loc' = None
          /\ location' = Location(40 * UnitsPerMm, 40 * UnitsPerMm, 0,
                                  "Drop Tip")
          /\ UNCHANGED <<droplets_x, droplets_y, droplets_size,
                         droplets_color, totalAspirated, totalDispensed,
                         tip_count>>
          /\ \E reagent \in DOMAIN totalAspirated' :
                TotalOf(totalAspirated', reagent)
                    > TotalOf(totalDispensed', reagent)]_vars

\* C27: after a successful aspirate from a well the reagent held is the name
\* the registry has under the key that matches the well's id when case is
\* ignored, and the aspirated total of that name has grown by the volume
C27_ReagentOfMatchedKey ==
    [][(op' = "aspirate" /\ result' = "ok") =>
          \A v \in AspirateVolumes :
              \A well \in { w \in AspirateSources : w.kind = "well" } :
                  aspirate(v, well) =>
                      \E wid \in DOMAIN well_colors :
                          /\ Upper(wid) = Upper(well.well_id)
                          /\ curr_color' = well_colors[wid]
                          /\ TotalOf(totalAspirated', well_colors[wid]) =
                                 TotalOf(totalAspirated, well_colors[wid]) + v]_vars

\* C28 as stated: with a tip and enough capacity every aspirate from a bare
\* location with z >= 0 succeeds, adds its volume, makes white the reagent
\* held, adds the volume to the aspirated total of white and makes the
\* location the source of the tip
C28_EveryLocationAspirateSucceeds ==
    [][(op' = "aspirate" /\ has_tip) =>
          \A v \in AspirateVolumes :
              \A loc \in { l \in AspirateSources : l.kind = "loc" } :
                  (/\ loc.z >= 0
                   /\ current_volume + v <= max_volume
                   /\ aspirate(v, loc)) =>
                      /\ result' = "ok"
                      /\ current_volume' = current_volume + v
                      /\ curr_color' = "white"
                      /\ TotalOf(totalAspirated', "white") =
                             TotalOf(totalAspirated, "white") + v
                      /\ aspirated_loc' = loc]_vars

\* C28 amended: the same for an aspirate of a positive volume by a tip that
\* has no other source recorded
C28_LocationAspirate ==
    [][(op' = "aspirate" /\ has_tip) =>
          \A v \in AspirateVolumes :
              \A loc \in { l \in AspirateSources : l.kind = "loc" } :
                  (/\ loc.z >= 0
                   /\ v > 0
                   /\ current_volume + v <= max_volume
                   /\ aspirated_loc \in {None, loc}
                   /\ aspirate(v, loc)) =>
                      /\ result' = "ok"
                      /\ current_volume' = current_volume + v
                      /\ curr_color' = "white"
                      /\ TotalOf(totalAspirated', "white") =
                             TotalOf(totalAspirated, "white") + v
                      /\ aspirated_loc' = loc]_vars

\* the tip has drawn from a bare location and holds white
C28_Witness ==
    /\ op = "aspirate" /\ result = "ok"
    /\ aspirated_loc # None /\ aspirated_loc.kind = "loc"
    /\ curr_color = "white" /\ current_volume = 5
    /\ TotalOf(totalAspirated, "white") = 5

\* C29 as stated: a simulate_protocol that ends without an error has
\* rendered exactly once, and nothing is rendered or written before run()
\* has returned or when the call ends with an error
C29_RenderedExactlyOnce ==
    /\ [](stage = "done" => rendered = 1)
    /\ [](stage \in {"called", "run", "returned", "raised"} =>
              (rendered = 0 /\ written = 0))

\* C29 amended: visualize_petri is called at most once, from the state in
\* which run() has returned without an error; a call that ends without an
\* error has rendered once if run() loaded a pipette and not at all if it
\* loaded none; an image is written only by the rendering and only when a
\* save_path was given; a missing file, a file without run and a run() that
\* raises leave nothing rendered and nothing written
C29_RenderedOnceAfterRun ==
    /\ [](stage = "done" =>
              /\ exception = "ok"
              /\ rendered = (IF mock_pipette # None THEN 1 ELSE 0)
              /\ written = (IF save_path # "" THEN rendered ELSE 0))
    /\ [](stage \in {"called", "run", "returned", "raised"} =>
              (rendered = 0 /\ written = 0))
    /\ [][(rendered' # rendered \/ written' # written) =>
              /\ stage = "returned"
              /\ exception = "ok"
              /\ rendered' = rendered + 1]_vars

\* a drawing of two droplets has been rendered and written once
C29_Witness ==
    /\ stage = "done" /\ rendered = 1 /\ written = 1
    /\ Len(droplets_x) = 2

\* C30: in every state and for every reagent the dispensed total is at
\* most the aspirated total, a reagent without an aspirated total counting
\* as 0, so that no line of the summary shows more dispensed than aspirated
C30_NeverMoreDispensedThanAspirated ==
    \A reagent \in all_colors :
        DictGet(totalDispensed, reagent) <= DictGet(totalAspirated, reagent)

\* C31: every droplet is recorded by a dispense of a tip that has drawn
\* from a source, by a successful aspirate, since it was picked up, and has
\* the display colour of the reagent of that source; and 'orange', the
\* reagent a new pipette starts with, is the colour of a droplet only if
\* orange was aspirated
C31_NoDropletWithoutSource ==
    /\ [][(op' = "dispense" /\ result' = "ok") =>
              /\ Len(droplets_color') = Len(droplets_color) + 1
              /\ tip_reagent # ""
              /\ droplets_color'[Len(droplets_color')] =
                     resolve_visual_color(tip_reagent)]_vars
    /\ [](\A i \in DOMAIN droplets_color :
              droplets_color[i] = "orange" =>
                  "orange" \in DOMAIN totalAspirated)

\* C32: there are never more smears than droplets, a pending mark counting
\* as a smear still to come; a smear is appended one at a time and only
\* while a mark is pending, and the call that appends it takes the mark
\* away, a successful dispense putting its own in its place
C32_SmearsAtMostDroplets ==
    /\ [](Len(smears) + (IF justDispensedAt # None THEN 1 ELSE 0)
              <= Len(droplets_x))
    /\ [][Len(smears') # Len(smears) =>
              /\ Len(smears') = Len(smears) + 1
              /\ justDispensedAt # None
              /\ \/ justDispensedAt' = None
                 \/ op' = "dispense" /\ result' = "ok"]_vars

\* two droplets, each followed by a smear
C32_Witness ==
    /\ Len(droplets_x) = 2 /\ Len(smears) = 2
    /\ justDispensedAt = None

RECURSIVE SumSeq(_)
\* the sum of the numbers of a list
SumSeq(seq) == IF seq = <<>> THEN 0 ELSE Head(seq) + SumSeq(Tail(seq))

RECURSIVE SumOver(_, _)
\* the sum of the values a dict has under the given keys
SumOver(d, keys) ==
    IF keys = {} THEN 0
    ELSE LET key == CHOOSE k \in keys : TRUE
         IN  d[key] + SumOver(d, keys \ {key})

\* C33: the four droplet lists are of one length, the number of successful
\* dispenses, and the droplet sizes add up to 100 times the sum of the
\* values of totalDispensed
C33_DropletListsAgree ==
    /\ Len(droplets_x) = dispenses
    /\ Len(droplets_y) = dispenses
    /\ Len(droplets_size) = dispenses
    /\ Len(droplets_color) = dispenses
    /\ SumSeq(droplets_size) =
           100 * SumOver(totalDispensed, DOMAIN totalDispensed)

\* two droplets of one reagent
C33_Witness ==
    /\ dispenses = 2
    /\ droplets_size = <<300, 200>>
    /\ totalDispensed = [sfGFP |-> 5]

\* C34: every droplet of the trail lies within MAX_DRAW_RADIUS of the centre
\* of the dish and has a size above 0
C34_DropletsInsideSafeArea ==
    /\ Len(droplets_y) = Len(droplets_x)
    /\ Len(droplets_size) = Len(droplets_x)
    /\ \A i \in DOMAIN droplets_x :
          /\ droplets_x[i] * droplets_x[i] + droplets_y[i] * droplets_y[i]
                 <= Mm(MAX_DRAW_RADIUS) * Mm(MAX_DRAW_RADIUS)
          /\ droplets_size[i] > 0

\* a droplet on the circle of radius MAX_DRAW_RADIUS, after a dispense
\* beyond it was refused
C34_Witness ==
    /\ droplets_x = <<Mm(24)>> /\ droplets_y = <<Mm(32)>>
    /\ op = "dispense" /\ result = "OutOfBounds"

\* C35: tip_count is the number of successful drop_tip calls plus 1 if a
\* tip is mounted; a mounted tip has been counted
C35_TipCount ==
    /\ tip_count = drop_tips + (IF has_tip THEN 1 ELSE 0)
    /\ has_tip => tip_count >= 1

\* the second tip is mounted, the first was dropped
C35_Witness == has_tip /\ drop_tips = 1 /\ tip_count = 2

\* C36: blow_out never fails, sets current_volume to 0 and changes nothing
\* else of the pipette; the tip keeps its source, so that the aspirate of a
\* positive volume from another source right after it raises the
\* cross-contamination error
C36_BlowOut ==
    /\ [][op' = "blow_out" =>
              /\ result' = "ok"
              /\ current_volume' = 0
              /\ UNCHANGED <<has_tip, tip_count, aspirated_loc, curr_color,
                             justDispensedAt, location, totalAspirated,
                             totalDispensed, droplets_x, droplets_y,
                             droplets_size, droplets_color, smears>>]_vars
    /\ [][(op = "blow_out" /\ op' = "aspirate" /\ has_tip
               /\ aspirated_loc # None) =>
              \A v \in AspirateVolumes :
                  \A loc \in AspirateSources :
                      (v > 0 /\ loc # aspirated_loc /\ aspirate(v, loc)) =>
                          /\ result' = "CrossContamination"
                          /\ current_volume' = 0
                          /\ aspirated_loc' = aspirated_loc]_vars

\* a tip that drew from a well and was blown out has been refused another
\* source
C36_Witness ==
    /\ op = "aspirate" /\ result = "CrossContamination"
    /\ has_tip /\ current_volume = 0
    /\ aspirated_loc # None
    /\ DOMAIN totalAspirated # {}

\* C37: while a mark is pending it is at the last droplet and the reagent
\* held is the one that droplet was coloured for; a smear appended has the
\* colour of the last droplet recorded before the call and starts at that
\* droplet's (x, y)
C37_SmearMatchesDroplet ==
    /\ [](justDispensedAt # None =>
              /\ droplets_x # <<>>
              /\ justDispensedAt.x = droplets_x[Len(droplets_x)]
              /\ justDispensedAt.y = droplets_y[Len(droplets_y)]
              /\ resolve_visual_color(curr_color) =
                     droplets_color[Len(droplets_color)])
    /\ [][Len(smears') = Len(smears) + 1 =>
              /\ droplets_x # <<>>
              /\ smears'[Len(smears')].color =
                     droplets_color[Len(droplets_color)]
              /\ smears'[Len(smears')].xs[1] = droplets_x[Len(droplets_x)]
              /\ smears'[Len(smears')].ys[1] = droplets_y[Len(droplets_y)]]_vars

\* a lime droplet at (5, 5) with its smear, made by a further aspirate from
\* the well
C37_Witness ==
    /\ op = "aspirate"
    /\ Len(smears) = 1 /\ smears[1].color = "lime"
    /\ smears[1].xs[1] = Mm(5)
    /\ droplets_color = <<"lime">>

\* C38 as stated: resolving the colour that a key of the table or 'green'
\* was resolved to gives that colour again
C38_Idempotent ==
    [][(/\ visual # None
        /\ visual' # None
        /\ protein_or_color_name \in
               DOMAIN PROTEIN_VISUAL_COLORS \cup {<<"g", "r", "e", "e", "n">>})
          => visual'.chars = visual.chars]_vars

\* C38 amended: the same for 'green' and every key but 'mclover3', whose
\* colour 'green' is resolved to 'lime'
C38_IdempotentButMclover3 ==
    [][(/\ visual # None
        /\ visual' # None
        /\ protein_or_color_name \in
               DOMAIN PROTEIN_VISUAL_COLORS \cup {<<"g", "r", "e", "e", "n">>})
          => IF protein_or_color_name =
                    <<"m", "c", "l", "o", "v", "e", "r", "3">>
             THEN /\ visual.chars = <<"g", "r", "e", "e", "n">>
                  /\ visual'.chars = <<"l", "i", "m", "e">>
             ELSE visual'.chars = visual.chars]_vars

\* 'lime', the colour of a key, was resolved to 'lime'
C38_Witness ==
    /\ visual # None
    /\ protein_or_color_name = <<"l", "i", "m", "e">>
    /\ visual.chars = <<"l", "i", "m", "e">>

====
